---- MODULE Spec2Model ----
(***************************************************************************)
(* explore_solar_system.py: a catalog of planets loaded from a JSON file   *)
(* (SolarSystem.load_data), a case-insensitive linear lookup               *)
(* (SolarSystem.get_planet_by_name) and the four query handlers of the     *)
(* Tkinter front end (SolarSystemApp).                                     *)
(*                                                                         *)
(* Text is modelled as a sequence of one-character strings, so that        *)
(* lower-casing, concatenation and joining are computed, not assumed.      *)
(***************************************************************************)
EXTENDS Integers, Sequences, FiniteSets, TLC

\* Longest JSON array a data file holds.
MaxRecords == 2

\* Most direct load_data calls made on one SolarSystem.
MaxLoads == 2

-----------------------------------------------------------------------------
(* Text *)

\* A str as the sequence of its characters.
Chars(s) == [i \in 1..Len(s) |-> SubSeq(s, i, i)]

UpperCase == Chars("ABCDEFGHIJKLMNOPQRSTUVWXYZ")

LowerCase == Chars("abcdefghijklmnopqrstuvwxyz")

\* str.lower() on one character: an upper-case letter maps to its lower-case
\* letter, every other character (digit, space, symbol) to itself.
LowerChar(c) ==
    IF \E i \in DOMAIN UpperCase : UpperCase[i] = c
    THEN LowerCase[CHOOSE i \in DOMAIN UpperCase : UpperCase[i] = c]
    ELSE c

\* str.lower(): character by character, nothing trimmed.
lower(s) == [i \in 1..Len(s) |-> LowerChar(s[i])]

Digit == Chars("0123456789")

\* str(n) for a natural number, as the f-string formats len(planet.moons).
RECURSIVE Str(_)
Str(n) ==
    IF n < Len(Digit)
    THEN <<Digit[n + 1]>>
    ELSE Str(n \div Len(Digit)) \o <<Digit[(n % Len(Digit)) + 1]>>

\* A mutant of join: the separator is dropped.
RECURSIVE join_nosep(_, _)
join_nosep(sep, items) ==
    IF items = <<>> THEN <<>>
    ELSE items[1] \o join_nosep(sep, Tail(items))

\* sep.join(items): the items in order, sep between consecutive items.
RECURSIVE join(_, _)
join(sep, items) ==
    IF items = <<>> THEN <<>>
    ELSE IF Len(items) = 1 THEN items[1]
    ELSE items[1] \o sep \o join(sep, Tail(items))

-----------------------------------------------------------------------------
(* class Planet *)

\* Planet.__init__: the four attributes, stored as given.
Planet(name, mass, distance_from_sun, moons) ==
    [name |-> name, mass |-> mass,
     distance_from_sun |-> distance_from_sun, moons |-> moons]

\* Planet.__str__: four lines; an empty moons list is falsy and renders as
\* the literal None.
Planet_str(p) ==
    Chars("Name: ") \o p.name \o <<"\n">>
    \o Chars("Mass: ") \o p.mass \o Chars(" kg") \o <<"\n">>
    \o Chars("Distance from Sun: ") \o p.distance_from_sun \o Chars(" km") \o <<"\n">>
    \o Chars("Moons: ")
    \o (IF p.moons # <<>> THEN join(Chars(", "), p.moons) ELSE Chars("None"))

-----------------------------------------------------------------------------
(* The data file *)

RequiredKeys == {"name", "mass", "distance_from_sun", "moons"}

\* Elements of the JSON array.  The complete ones carry all four keys.
Earth ==
    [name |-> Chars("Earth"), mass |-> Chars("5.97e24"),
     distance_from_sun |-> Chars("149600000"), moons |-> <<Chars("Moon")>>]

\* Same name as Earth up to case, told apart by its other fields.
EARTH2 ==
    [name |-> Chars("EARTH"), mass |-> Chars("1.0"),
     distance_from_sun |-> Chars("2"), moons |-> <<>>]

Mars ==
    [name |-> Chars("Mars"), mass |-> Chars("6.4171e23"),
     distance_from_sun |-> Chars("227900000"),
     moons |-> <<Chars("Phobos"), Chars("Deimos")>>]

\* A record whose name is the empty string and whose one moon is spelled
\* like the literal the rendering uses for an empty list.
Nameless ==
    [name |-> <<>>, mass |-> Chars("0"),
     distance_from_sun |-> Chars("0"), moons |-> <<Chars("None")>>]

\* Elements missing a required key.
NoMoonsKey ==
    [name |-> Chars("Venus"), mass |-> Chars("4.8e24"),
     distance_from_sun |-> Chars("108200000")]

NoNameKey ==
    [mass |-> Chars("3.3e23"), distance_from_sun |-> Chars("57910000"),
     moons |-> <<>>]

Elements == {Earth, EARTH2, Mars, Nameless, NoMoonsKey, NoNameKey}

Arrays == UNION {[1..n -> Elements] : n \in 0..MaxRecords}

\* What open() and json.load() find at a path: no file, text that is not
\* JSON, or a JSON array.
Absent == [kind |-> "absent", data |-> <<>>]

InvalidJSON == [kind |-> "invalid", data |-> <<>>]

FileContents == {Absent, InvalidJSON} \cup {[kind |-> "array", data |-> a] : a \in Arrays}

FileNames == {"planets.json", "non_existent.json"}

\* os.path.dirname(os.path.abspath(__file__))
base_dir == Chars("/app")

\* os.path.join(base_dir, file_path) for a relative file name.
path_join(dir, file_path) == dir \o Chars("/") \o Chars(file_path)

-----------------------------------------------------------------------------
(* messagebox *)

NoDialog == [kind |-> "none", title |-> "", message |-> <<>>]

showerror(title, message) == [kind |-> "showerror", title |-> title, message |-> message]

showinfo(title, message) == [kind |-> "showinfo", title |-> title, message |-> message]

-----------------------------------------------------------------------------
(* class SolarSystem *)

NoException == "none"

\* A mutant of AppendPlanets: each new planet is inserted at the front.
RECURSIVE AppendPlanets_front(_, _, _)
AppendPlanets_front(ps, data, i) ==
    IF i > Len(data) THEN [planets |-> ps, exc |-> NoException]
    ELSE IF RequiredKeys \subseteq DOMAIN data[i]
    THEN AppendPlanets_front(
             <<Planet(data[i].name, data[i].mass,
                      data[i].distance_from_sun, data[i].moons)>> \o ps,
             data, i + 1)
    ELSE [planets |-> ps, exc |-> "KeyError"]

\* The for loop of load_data from element i on: one Planet appended per
\* element; a missing key raises KeyError and leaves what was appended.
RECURSIVE AppendPlanets(_, _, _)
AppendPlanets(ps, data, i) ==
    IF i > Len(data) THEN [planets |-> ps, exc |-> NoException]
    ELSE IF RequiredKeys \subseteq DOMAIN data[i]
    THEN AppendPlanets(
             Append(ps, Planet(data[i].name, data[i].mass,
                               data[i].distance_from_sun, data[i].moons)),
             data, i + 1)
    ELSE [planets |-> ps, exc |-> "KeyError"]

\* The try block of load_data: open, json.load, the loop.
TryBody(ps, content) ==
    IF content.kind = "absent" THEN [planets |-> ps, exc |-> "FileNotFoundError"]
    ELSE IF content.kind = "invalid" THEN [planets |-> ps, exc |-> "JSONDecodeError"]
    ELSE AppendPlanets(ps, content.data, 1)

\* A mutant of Handles: the except clause is missing.
Handles_nothing(exc) == FALSE

\* A mutant of Handles: a bare except clause.
Handles_everything(exc) == exc # NoException

\* The except clause of load_data: FileNotFoundError only.
Handles(exc) == exc = "FileNotFoundError"

NotFoundMessage ==
    Chars("Data file not found. Ensure 'planets.json' is in the same directory as the script: ")

\* SolarSystem.load_data on catalog ps with the files d: the catalog after the
\* call, the exception that reaches the caller, the dialog shown.
load_data(ps, d, file_path) ==
    LET full_path == path_join(base_dir, file_path)
        r == TryBody(ps, d[file_path])
    IN  IF r.exc = NoException
        THEN [planets |-> r.planets, raised |-> NoException, dialog |-> NoDialog]
        ELSE IF Handles(r.exc)
        THEN [planets |-> r.planets, raised |-> NoException,
              dialog |-> showerror("Error", NotFoundMessage \o full_path)]
        ELSE [planets |-> r.planets, raised |-> r.exc, dialog |-> NoDialog]

\* The None that get_planet_by_name returns; a found planet is its index.
None == 0

RECURSIVE Scan(_, _, _)
Scan(ps, name, i) ==
    IF i > Len(ps) THEN None
    ELSE IF lower(ps[i].name) = lower(name) THEN i
    ELSE Scan(ps, name, i + 1)

\* A mutant of get_planet_by_name: the last match wins.
get_planet_by_name_last(ps, name) ==
    LET M == {i \in 1..Len(ps) : lower(ps[i].name) = lower(name)}
    IN  IF M = {} THEN None ELSE CHOOSE i \in M : \A j \in M : j <= i

\* SolarSystem.get_planet_by_name: the first planet in list order whose
\* lower-cased name equals the lower-cased query.
get_planet_by_name(ps, name) == Scan(ps, name, 1)

-----------------------------------------------------------------------------
(* State *)

VARIABLES
    disk,      \* the files next to the script: file name -> content
    planets,   \* SolarSystem.planets
    app,       \* "none": no SolarSystemApp; "serving": main loop; "crashed"
    loads,     \* load_data calls made on this SolarSystem
    loaded,    \* some load_data call has completed without an error
    op,        \* the operation that ran last
    file,      \* file_path of the last load_data call
    query,     \* the name the last lookup was given
    found,     \* the planet the last lookup returned (index) or None
    raised,    \* the exception the last operation let escape
    dialog,    \* the dialog the last operation showed
    repeated   \* the last operation repeated the one before it

vars == <<disk, planets, app, loads, loaded, op, file, query, found, raised,
          dialog, repeated>>

\* The texts typed into the entry field or passed to a lookup.
Queries ==
    {Chars("earth"), Chars("EARTH"), Chars("Earth "), Chars("mars"),
     <<>>, Chars("@#"), Chars("123")}

LoadOps == {"load_data", "SolarSystemApp.__init__"}

HandlerOps == {"show_details", "check_existence", "get_mass", "get_moons"}

LookupOps == HandlerOps \cup {"get_planet_by_name"}

\* SolarSystem.__init__, before any file is read.
Init ==
    /\ disk \in {d \in [FileNames -> FileContents] : d["non_existent.json"] = Absent}
    /\ planets = <<>>
    /\ app = "none"
    /\ loads = 0
    /\ loaded = FALSE
    /\ op = "SolarSystem.__init__"
    /\ file = "planets.json"
    /\ query = <<>>
    /\ found = None
    /\ raised = NoException
    /\ dialog = NoDialog
    /\ repeated = FALSE

\* What every load leaves behind.
Loaded(name, f, r) ==
    /\ planets' = r.planets
    /\ loads' = loads + 1
    /\ loaded' = (loaded \/ (r.raised = NoException /\ r.dialog = NoDialog))
    /\ op' = name
    /\ file' = f
    /\ query' = <<>>
    /\ found' = None
    /\ raised' = r.raised
    /\ dialog' = r.dialog
    /\ repeated' = FALSE
    /\ UNCHANGED disk

\* A caller (a test, a script) calls load_data directly.
LoadData(f) ==
    /\ app = "none"
    /\ loads < MaxLoads
    /\ Loaded("load_data", f, load_data(planets, disk, f))
    /\ UNCHANGED app

\* SolarSystemApp.__init__: a new SolarSystem, load_data('planets.json'),
\* then the widgets.  An exception out of load_data leaves __init__ and the
\* script: the main loop is never entered.
SolarSystemApp_init ==
    /\ app = "none"
    /\ loads = 0
    /\ LET r == load_data(<<>>, disk, "planets.json")
       IN  /\ Loaded("SolarSystemApp.__init__", "planets.json", r)
           /\ app' = IF r.raised = NoException THEN "serving" ELSE "crashed"

\* What every lookup leaves behind.
Looked(name, q, p, dlg) ==
    /\ op' = name
    /\ query' = q
    /\ found' = p
    /\ dialog' = dlg
    /\ raised' = NoException
    /\ repeated' = (op = name /\ query = q)
    /\ UNCHANGED <<disk, app, loads, loaded, file>>

\* A mutant of Lookup: the planet found is taken out of the list.
Lookup_consuming(q) ==
    /\ app # "crashed"
    /\ LET p == get_planet_by_name(planets, q)
       IN  /\ Looked("get_planet_by_name", q, p, NoDialog)
           /\ planets' = IF p = None THEN planets
                         ELSE SubSeq(planets, 1, p - 1) \o SubSeq(planets, p + 1, Len(planets))

\* A caller calls get_planet_by_name directly.
Lookup(q) ==
    /\ app # "crashed"
    /\ Looked("get_planet_by_name", q, get_planet_by_name(planets, q), NoDialog)
    /\ UNCHANGED planets

PlanetNotFound == showerror("Error", Chars("Planet not found."))

\* SolarSystemApp.show_details with q in the entry field.
show_details(q) ==
    /\ app = "serving"
    /\ LET p == get_planet_by_name(planets, q)
       IN  Looked("show_details", q, p,
                  IF p # None
                  THEN showinfo("Planet Details", Planet_str(planets[p]))
                  ELSE PlanetNotFound)
    /\ UNCHANGED planets

\* SolarSystemApp.check_existence with q in the entry field.
check_existence(q) ==
    /\ app = "serving"
    /\ LET p == get_planet_by_name(planets, q)
       IN  Looked("check_existence", q, p,
                  IF p # None
                  THEN showinfo("Check Existence",
                                Chars("Yes, ") \o q \o Chars(" exists in the list."))
                  ELSE showinfo("Check Existence",
                                Chars("No, ") \o q \o Chars(" is not in the list.")))
    /\ UNCHANGED planets

\* SolarSystemApp.get_mass with q in the entry field.
get_mass(q) ==
    /\ app = "serving"
    /\ LET p == get_planet_by_name(planets, q)
       IN  Looked("get_mass", q, p,
                  IF p # None
                  THEN showinfo("Planet Mass",
                                Chars("The mass of ") \o planets[p].name \o Chars(" is ")
                                \o planets[p].mass \o Chars(" kg."))
                  ELSE PlanetNotFound)
    /\ UNCHANGED planets

\* SolarSystemApp.get_moons with q in the entry field.
get_moons(q) ==
    /\ app = "serving"
    /\ LET p == get_planet_by_name(planets, q)
       IN  Looked("get_moons", q, p,
                  IF p # None
                  THEN showinfo("Moon Count",
                                planets[p].name \o Chars(" has ")
                                \o Str(Len(planets[p].moons)) \o Chars(" moon(s)."))
                  ELSE PlanetNotFound)
    /\ UNCHANGED planets

Next ==
    \/ \E f \in FileNames : LoadData(f)
    \/ SolarSystemApp_init
    \/ \E q \in Queries : Lookup(q)
    \/ \E q \in Queries : show_details(q)
    \/ \E q \in Queries : check_existence(q)
    \/ \E q \in Queries : get_mass(q)
    \/ \E q \in Queries : get_moons(q)

Spec == Init /\ [][Next]_vars

-----------------------------------------------------------------------------
(* Properties *)

\* Two texts are equal up to the case of their letters.
SameIgnoringCase(a, b) ==
    /\ Len(a) = Len(b)
    /\ \A i \in 1..Len(a) :
          \/ a[i] = b[i]
          \/ \E k \in DOMAIN UpperCase : {a[i], b[i]} = {UpperCase[k], LowerCase[k]}

\* The records of catalog ps whose name is the query up to case.
Matching(ps, q) == {i \in 1..Len(ps) : SameIgnoringCase(ps[i].name, q)}

MissingKey(c) ==
    /\ c.kind = "array"
    /\ \E i \in DOMAIN c.data : ~(RequiredKeys \subseteq DOMAIN c.data[i])

WellFormed(c) == c.kind = "array" /\ ~MissingKey(c)

EndsWith(text, suffix) ==
    /\ Len(suffix) <= Len(text)
    /\ SubSeq(text, Len(text) - Len(suffix) + 1, Len(text)) = suffix

\* C1: every lookup, whatever the query (empty, digits, symbols, spaces, none
\* trimmed), returns the first record in catalog order whose name equals the
\* query up to case, and None exactly when no record matches; with duplicate
\* names the earliest record wins.
C1_FirstCaseInsensitiveMatch ==
    op \in LookupOps =>
        /\ (found = None) <=> (Matching(planets, query) = {})
        /\ found # None =>
              /\ found \in Matching(planets, query)
              /\ \A j \in Matching(planets, query) : found <= j

\* A lookup found a record spelled differently from the query, ahead of a
\* later record that matches as well.
C1_Witness ==
    /\ op \in LookupOps
    /\ found # None
    /\ planets[found].name # query
    /\ \E j \in Matching(planets, query) : j > found

\* C2: the first load_data on a new SolarSystem, from a well-formed file of N
\* records, leaves exactly N planets, the i-th with the name, mass,
\* distance_from_sun and moons of the i-th array element.
C2_LoadKeepsFileOrder ==
    (loads = 1 /\ WellFormed(disk[file])) =>
        LET data == disk[file].data
        IN  /\ Len(planets) = Len(data)
            /\ \A i \in 1..Len(data) :
                  /\ planets[i].name = data[i].name
                  /\ planets[i].mass = data[i].mass
                  /\ planets[i].distance_from_sun = data[i].distance_from_sun
                  /\ planets[i].moons = data[i].moons

\* One load of a well-formed file of two different records has completed.
C2_Witness ==
    /\ loads = 1
    /\ op \in LoadOps
    /\ WellFormed(disk[file])
    /\ Len(planets) >= 2
    /\ planets[1] # planets[2]

C4_MissingFileRaises ==
    (op = "load_data" /\ disk[file].kind = "absent") => raised = "FileNotFoundError"

\* C5: load_data on a file that is not valid JSON, or with an element missing
\* a required key, ends in an error that reaches the caller (JSONDecodeError
\* for invalid JSON); it never completes as a successful load.
C5_MalformedDataRaises ==
    (op \in LoadOps /\ (disk[file].kind = "invalid" \/ MissingKey(disk[file]))) =>
        /\ raised \in {"JSONDecodeError", "KeyError"}
        /\ disk[file].kind = "invalid" => raised = "JSONDecodeError"
        /\ MissingKey(disk[file]) => raised = "KeyError"
        /\ dialog = NoDialog
        /\ app # "serving"

\* A direct load met an element without a required key after a complete one.
C5_Witness ==
    /\ op = "load_data"
    /\ raised = "KeyError"
    /\ Len(disk[file].data) >= 2
    /\ RequiredKeys \subseteq DOMAIN disk[file].data[1]

\* C6: whatever the data file holds, startup completes and the application
\* serves its handlers, with an empty catalog when the load failed.
C6_StartupAlwaysServes ==
    op = "SolarSystemApp.__init__" =>
        /\ app = "serving"
        /\ ~WellFormed(disk[file]) => planets = <<>>

\* C7: a lookup or handler leaves the catalog as it was, and the same
\* operation with the same query gives the same record and the same dialog.
C7_QueriesReadOnlyAndRepeatable ==
    [][ op' \in LookupOps =>
           /\ planets' = planets
           /\ (op' = op /\ query' = query) => (found' = found /\ dialog' = dialog) ]_vars

\* A handler found a record and was run again with the same query.
C7_Witness ==
    /\ repeated
    /\ op \in HandlerOps
    /\ found # None
    /\ Len(planets) >= 2

\* The length of the detail rendering of p up to and including "Moons: ".
DetailHeader(p) ==
    Len(Chars("Name: ")) + Len(p.name) + 1
    + Len(Chars("Mass: ")) + Len(p.mass) + Len(Chars(" kg")) + 1
    + Len(Chars("Distance from Sun: ")) + Len(p.distance_from_sun) + Len(Chars(" km")) + 1
    + Len(Chars("Moons: "))

\* Where item i starts in a text that lists the items two characters apart.
RECURSIVE Offset(_, _)
Offset(items, i) ==
    IF i = 1 THEN 0 ELSE Offset(items, i - 1) + Len(items[i - 1]) + Len(Chars(", "))

\* text lists the items in order with ", " between neighbours.
ListsInOrder(text, items) ==
    /\ Len(text) = Offset(items, Len(items)) + Len(items[Len(items)])
    /\ \A i \in 1..Len(items) :
          SubSeq(text, Offset(items, i) + 1, Offset(items, i) + Len(items[i])) = items[i]
    /\ \A i \in 1..(Len(items) - 1) :
          /\ text[Offset(items, i) + Len(items[i]) + 1] = ","
          /\ text[Offset(items, i) + Len(items[i]) + 2] = " "

\* The number a decimal numeral denotes, -1 if the text is no numeral.
RECURSIVE ParseNat(_)
ParseNat(text) ==
    IF text = <<>> \/ \E i \in DOMAIN text : \A d \in DOMAIN Digit : Digit[d] # text[i]
    THEN -1
    ELSE LET last == (CHOOSE d \in DOMAIN Digit : Digit[d] = text[Len(text)]) - 1
         IN  IF Len(text) = 1 THEN last
             ELSE ParseNat(SubSeq(text, 1, Len(text) - 1)) * Len(Digit) + last

\* C8: for a found record the moon count shown is the length of its moons
\* list, and the detail rendering ends with the moons in stored order joined
\* by ", ", the literal None taking the list's place when the list is empty;
\* with no record found every handler gives its not-found outcome.
C8_MoonCountAndRendering ==
    /\ (op = "get_moons" /\ found # None) =>
          /\ dialog.kind = "showinfo"
          /\ ParseNat(SubSeq(dialog.message,
                             Len(planets[found].name) + Len(Chars(" has ")) + 1,
                             Len(dialog.message) - Len(Chars(" moon(s)."))))
             = Len(planets[found].moons)
    /\ (op = "show_details" /\ found # None) =>
          LET p == planets[found]
              shown == SubSeq(dialog.message, DetailHeader(p) + 1, Len(dialog.message))
          IN  /\ dialog.kind = "showinfo"
              /\ p.moons = <<>> => shown = Chars("None")
              /\ p.moons # <<>> => ListsInOrder(shown, p.moons)
    /\ (op \in {"show_details", "get_mass", "get_moons"} /\ found = None) =>
          dialog = showerror("Error", Chars("Planet not found."))
    /\ (op = "check_existence" /\ found = None) =>
          /\ dialog.kind = "showinfo"
          /\ dialog.message = Chars("No, ") \o query \o Chars(" is not in the list.")

\* The details of a planet with two moons were shown.
C8_Witness ==
    /\ op = "show_details"
    /\ found # None
    /\ Len(planets[found].moons) = 2

\* C9: once a load_data call has completed successfully, nothing changes the
\* catalog any more, a further load_data of the same file included.
C9_CatalogImmutableOnceLoaded ==
    [][ loaded => planets' = planets ]_vars

\* C10: a load_data call that fails (file missing, not valid JSON, an element
\* missing a required key) leaves the catalog exactly as it was.
C10_FailedLoadChangesNothing ==
    [][ (op' \in LoadOps /\ ~WellFormed(disk[file'])) => planets' = planets ]_vars

====
